---- MODULE Spec2Model ----
(***************************************************************************)
(* GoCache: an in-memory key-value cache with per-entry TTL and LRU        *)
(* eviction (internal/cache/cache.go, internal/cache/maintenance.go).      *)
(*                                                                         *)
(* The cache is a map from key to list element (items) plus a doubly       *)
(* linked list of entries (lru, front = MRU), guarded by one RWMutex (mu). *)
(* Client goroutines call Set, Get, Delete, Len, Keys and Close; one       *)
(* optional worker goroutine (expiryLoop) sweeps expired entries on ticks. *)
(*                                                                         *)
(* A critical section that nothing can observe from outside is one action; *)
(* Set, the only operation with several phases under the exclusive lock,   *)
(* is split at its phases (insert, index, sweep, eviction loop), and Get   *)
(* and Close are split where they release and re-acquire the lock or       *)
(* block.  A goroutine blocked in Lock is one whose next action is not yet *)
(* enabled.                                                                *)
(***************************************************************************)
EXTENDS Integers, Sequences, FiniteSets, TLC

\* ---------------------------------------------------------------- bounds
MaxCap == 2          \* largest MaxEntries a configuration draws
MaxTime == 2         \* the clock runs 1..MaxTime
MaxTTL == 1          \* largest ttl a Set passes
NumValues == 2       \* distinct byte strings a Set stores
MaxCalls == 2        \* operations the first client starts in one run

ZeroTime == 0        \* the zero time.Time of "var expiresAt time.Time"

Keys == {"a", "b", "c"}
Values == {<<b>> : b \in 1..NumValues}
Threads == {"t1", "t2"}
\* concurrent runs: the first client makes up to MaxCalls calls, the second
\* one races one call against them
Budget == [t \in Threads |-> IF t = "t1" THEN MaxCalls ELSE 1]
\* sequential runs: one client makes up to MaxCalls + 2 calls
SeqBudget == [t \in Threads |-> IF t = "t1" THEN MaxCalls + 2 ELSE 0]
Time == 1..MaxTime
TTLs == (0 - 1)..MaxTTL
NoKey == "none"
NoThread == "none"
NilBytes == <<>>      \* a nil []byte

VARIABLES
  maxEntries,    \* Cache.maxEntries
  cleanupEvery,  \* Cache.cleanupEvery
  items,         \* Cache.items: the keys of the map (each maps to its list element)
  lru,           \* Cache.lru: the entries, front (index 1) = MRU
  closed,        \* Cache.closed
  ctxDone,       \* Cache.ctx cancelled
  wg,            \* Cache.wg counter
  mu,            \* Cache.mu: the goroutine holding the exclusive lock across steps
  clock,         \* time.Now()
  tickC,         \* ticker.C, a channel of capacity one
  wpc,           \* the worker goroutine's position
  wnow,          \* the worker's "now" of the tick it received
  pc,            \* each client goroutine's position
  key,           \* each client's key argument
  tnow,          \* each client's local "now"
  ret,           \* each client's last return value
  pre,           \* history: lru and recency as the running Set found them
  budget,        \* operations each client may start in this run
  calls,         \* operations each client has started
  recency,       \* history: stored keys by last successful Set or Get, newest first
  keepArgs,      \* whether clients keep the buffer they passed to Set
  buf,           \* each client's kept Set argument, as the client sees it now
  alias          \* client-held slices whose backing array is a stored value's

vars == <<maxEntries, cleanupEvery, items, lru, closed, ctxDone, wg, mu, clock,
          tickC, wpc, wnow, pc, key, tnow, ret, pre, budget, calls, recency,
          keepArgs, buf, alias>>

cfgVars == <<maxEntries, cleanupEvery, budget, keepArgs>>
memVars == <<buf, alias>>
workerVars == <<tickC, wpc, wnow>>
lifeVars == <<closed, ctxDone, wg>>

\* ------------------------------------------------------------------ data
NewEntry(k, v, hasExp, exp) ==
  [key |-> k, value |-> v, hasExpiry |-> hasExp, expiresAt |-> exp]

\* mutant: an entry still counts as live at the instant of its expiry
ExpiredStrictlyPast(e, now) == e.hasExpiry /\ e.expiresAt < now

\* e.hasExpiry && !e.expiresAt.After(now)
Expired(e, now) == e.hasExpiry /\ ~(e.expiresAt > now)

KeysOf(l) == {l[i].key : i \in 1..Len(l)}
KeySeq(l) == [i \in 1..Len(l) |-> l[i].key]

\* the list element the map holds for key k
HasElem(l, k) == \E i \in 1..Len(l) : l[i].key = k
Elem(l, k) == l[CHOOSE i \in 1..Len(l) : l[i].key = k]

RECURSIVE Filter(_, _)
Filter(l, keep) ==
  IF l = <<>> THEN <<>>
  ELSE IF Head(l).key \in keep THEN <<Head(l)>> \o Filter(Tail(l), keep)
  ELSE Filter(Tail(l), keep)

RECURSIVE FilterKeys(_, _)
FilterKeys(s, keep) ==
  IF s = <<>> THEN <<>>
  ELSE IF Head(s) \in keep THEN <<Head(s)>> \o FilterKeys(Tail(s), keep)
  ELSE FilterKeys(Tail(s), keep)

\* mutant: Remove unlinks the front element, whichever key was asked for
ListRemoveFront(l, k) == Tail(l)

\* list.Remove of the element holding key k
ListRemove(l, k) == Filter(l, KeysOf(l) \ {k})
\* list.PushFront
PushFront(l, e) == <<e>> \o l
\* list.MoveToFront of the element holding key k
MoveToFront(l, k) == IF HasElem(l, k) THEN <<Elem(l, k)>> \o ListRemove(l, k) ELSE l
\* list.Back
Back(l) == l[Len(l)]

Range(s) == {s[i] : i \in 1..Len(s)}
\* history bookkeeping: key k was just used by a successful Set or Get
Touch(r, k) == <<k>> \o FilterKeys(r, Range(r) \ {k})

\* A []byte is a backing array and the bytes seen through it; nil is NilBytes.
\* Arrays are named by who holds them: the argument a client passed to Set,
\* the slice Get returned to it, the value stored under a key, or an array
\* that make has just allocated.
NewArray == <<"new", "new">>
ArgOf(t) == <<"arg", t>>
GotOf(t) == <<"got", t>>
ValueOf(k) == <<"entry", k>>
Slice(arr, bytes) == <<arr, bytes>>
Array(s) == s[1]
Bytes(s) == IF s = NilBytes THEN NilBytes ELSE s[2]

\* mutant: the slice is handed on without a copy
cloneBytesNoCopy(b) == b

\* cloneBytes: nil stays nil, anything else is copied byte by byte into a
\* new array
cloneBytes(b) ==
  IF b = NilBytes THEN NilBytes
  ELSE Slice(NewArray, [i \in 1..Len(Bytes(b)) |-> Bytes(b)[i]])

\* the client-held slices that share an array with the value of k, once that
\* value is the slice s: the links of holder h and of k's old value are gone
Link(al, h, k, s) ==
  {p \in al : p[1] # h /\ p[2] # k}
    \cup (IF s # NilBytes /\ Array(s) = h THEN {<<h, k>>} ELSE {})

\* the client-held slices that share an array with the value of k, once
\* holder h holds the slice s taken from that value
LinkGot(al, h, k, s) ==
  {p \in al : p[1] # h}
    \cup (IF s # NilBytes /\ Array(s) = ValueOf(k) THEN {<<h, k>>} ELSE {})

\* ------------------------------------------------- locked helper methods
Cache(its, l) == [items |-> its, lru |-> l]

\* mutant: the key leaves the map but its element stays in the list
deleteLockedKeepsElement(its, l, k) ==
  IF k \notin its THEN Cache(its, l)
  ELSE Cache(its \ {k}, l)

\* deleteLocked
deleteLocked(its, l, k) ==
  IF k \notin its THEN Cache(its, l)
  ELSE Cache(its \ {k}, ListRemove(l, k))

\* mutant: the key is deleted without looking at its expiry again
deleteIfExpiredLockedAlways(its, l, k, now) ==
  IF k \notin its THEN Cache(its, l)
  ELSE deleteLocked(its, l, k)

\* deleteIfExpiredLocked
deleteIfExpiredLocked(its, l, k, now) ==
  IF k \notin its THEN Cache(its, l)
  ELSE IF Expired(Elem(l, k), now) THEN deleteLocked(its, l, k)
  ELSE Cache(its, l)

\* mutant: the sweep leaves an entry that expires exactly at the sweep's time
deleteExpiredLockedBeforeOnly(its, l, now) ==
  LET dead == {k \in its : HasElem(l, k) /\ Elem(l, k).hasExpiry
                            /\ Elem(l, k).expiresAt < now}
  IN Cache(its \ dead, Filter(l, KeysOf(l) \ dead))

\* mutant: the sweep removes nothing
deleteExpiredLockedNone(its, l, now) == Cache(its, l)

\* deleteExpiredLocked: ranges over the map, removing each expired entry from
\* the map and from the list
deleteExpiredLocked(its, l, now) ==
  LET dead == {k \in its : HasElem(l, k) /\ Expired(Elem(l, k), now)}
  IN Cache(its \ dead, Filter(l, KeysOf(l) \ dead))

\* mutant: the loop stops one entry early
OverCapacityOffByOne(its, max) == Cardinality(its) > max + 1

\* evictIfNeededLocked, the loop condition "len(c.items) > c.maxEntries"
OverCapacity(its, max) == Cardinality(its) > max

\* mutant: an overwrite replaces the value but keeps the old expiry
SetExistingKeepsExpiry(l, k, v, hasExp, exp) ==
  LET upd == [i \in 1..Len(l) |->
                IF l[i].key = k
                THEN NewEntry(k, Bytes(cloneBytes(v)), l[i].hasExpiry, l[i].expiresAt)
                ELSE l[i]]
  IN MoveToFront(upd, k)

\* Set, the branch for a key the map already holds: overwrite value and
\* expiry in place, then MoveToFront
SetExisting(l, k, v, hasExp, exp) ==
  LET upd == [i \in 1..Len(l) |->
                IF l[i].key = k THEN NewEntry(k, Bytes(cloneBytes(v)), hasExp, exp) ELSE l[i]]
  IN MoveToFront(upd, k)

\* Set, the branch for a new key: PushFront of a fresh entry
SetNew(l, k, v, hasExp, exp) ==
  PushFront(l, NewEntry(k, Bytes(cloneBytes(v)), hasExp, exp))

\* ----------------------------------------------------------- return values
NoPre == [lru |-> <<>>, recency |-> <<>>]
NoRet == [op |-> "none"]
ErrRet(o, e) == [op |-> o, err |-> e]
GetRet(v, f) == [op |-> "Get", value |-> v, found |-> f]

\* ------------------------------------------------------------------- New
Configs == [MaxEntries : 0..MaxCap, CleanupInterval : 0..1]

\* mutant: the worker is started whatever the cleanup interval
NewAlwaysStartsWorker(cfg) ==
  /\ maxEntries = cfg.MaxEntries
  /\ cleanupEvery = cfg.CleanupInterval
  /\ items = {}
  /\ lru = <<>>
  /\ closed = FALSE
  /\ ctxDone = FALSE
  /\ wg = 1
  /\ wpc = "select"
  /\ mu = NoThread
  /\ clock = 1
  /\ tickC = <<>>
  /\ wnow = ZeroTime
  /\ pc = [t \in Threads |-> "idle"]
  /\ key = [t \in Threads |-> NoKey]
  /\ tnow = [t \in Threads |-> ZeroTime]
  /\ ret = [t \in Threads |-> NoRet]
  /\ pre = NoPre
  /\ recency = <<>>
  /\ calls = [t \in Threads |-> 0]
  /\ buf = [t \in Threads |-> NilBytes]
  /\ alias = {}

New(cfg) ==
  /\ maxEntries = cfg.MaxEntries
  /\ cleanupEvery = cfg.CleanupInterval
  /\ items = {}
  /\ lru = <<>>
  /\ closed = FALSE
  /\ ctxDone = FALSE
  /\ wg = IF cfg.CleanupInterval > 0 THEN 1 ELSE 0
  /\ wpc = IF cfg.CleanupInterval > 0 THEN "select" ELSE "off"
  /\ mu = NoThread
  /\ clock = 1
  /\ tickC = <<>>
  /\ wnow = ZeroTime
  /\ pc = [t \in Threads |-> "idle"]
  /\ key = [t \in Threads |-> NoKey]
  /\ tnow = [t \in Threads |-> ZeroTime]
  /\ ret = [t \in Threads |-> NoRet]
  /\ pre = NoPre
  /\ recency = <<>>
  /\ calls = [t \in Threads |-> 0]
  /\ buf = [t \in Threads |-> NilBytes]
  /\ alias = {}

Init == budget = Budget /\ keepArgs = FALSE /\ \E cfg \in Configs : New(cfg)

\* a client goroutine starts an operation
Call(t) ==
  /\ pc[t] = "idle"
  /\ calls[t] < budget[t]
  /\ calls' = [calls EXCEPT ![t] = @ + 1]

\* a client goroutine returns r and forgets its locals
Return(t, r) ==
  /\ pc' = [pc EXCEPT ![t] = "idle"]
  /\ key' = [key EXCEPT ![t] = NoKey]
  /\ tnow' = [tnow EXCEPT ![t] = ZeroTime]
  /\ ret' = [ret EXCEPT ![t] = r]

\* ------------------------------------------------------------------- Set
\* Lock, the closed check, time.Now(), and the update or PushFront
SetLock(t, k, v, ttl) ==
  /\ Call(t) /\ mu = NoThread
  /\ ttl > 0 => clock + ttl <= MaxTime
  /\ IF closed
     THEN /\ Return(t, ErrRet("Set", "ErrClosed"))
          /\ UNCHANGED <<items, lru, mu, pre, recency, memVars>>
     ELSE LET now == clock
              value == Slice(ArgOf(t), v)
              hasExpiry == ttl > 0
              expiresAt == IF hasExpiry THEN now + ttl ELSE ZeroTime
          IN /\ mu' = t
             /\ buf' = [buf EXCEPT ![t] = IF keepArgs THEN v ELSE NilBytes]
             /\ alias' = Link(alias, ArgOf(t), k, cloneBytes(value))
             /\ key' = [key EXCEPT ![t] = k]
             /\ tnow' = [tnow EXCEPT ![t] = now]
             /\ ret' = [ret EXCEPT ![t] = NoRet]
             /\ pre' = [lru |-> lru, recency |-> recency]
             /\ recency' = Touch(recency, k)
             /\ items' = items
             /\ IF k \in items
                THEN /\ lru' = SetExisting(lru, k, value, hasExpiry, expiresAt)
                     /\ pc' = [pc EXCEPT ![t] = "set_evict"]
                ELSE /\ lru' = SetNew(lru, k, value, hasExpiry, expiresAt)
                     /\ pc' = [pc EXCEPT ![t] = "set_index"]
  /\ UNCHANGED <<cfgVars, workerVars, lifeVars, clock>>

\* c.items[key] = el
SetIndex(t) ==
  /\ pc[t] = "set_index" /\ mu = t
  /\ items' = items \cup {key[t]}
  /\ pc' = [pc EXCEPT ![t] = "set_evict"]
  /\ UNCHANGED <<calls, cfgVars, workerVars, lifeVars, clock, lru, mu, key, tnow, ret,
                 pre, recency>>
  /\ UNCHANGED memVars

\* evictIfNeededLocked up to its loop: return when unbounded, else sweep
SetEvict(t) ==
  /\ pc[t] = "set_evict" /\ mu = t
  /\ IF maxEntries <= 0
     THEN /\ Return(t, ErrRet("Set", "nil"))
          /\ mu' = NoThread
          /\ pre' = NoPre
          /\ UNCHANGED <<items, lru, recency>>
     ELSE LET c == deleteExpiredLocked(items, lru, tnow[t])
          IN /\ items' = c.items
             /\ lru' = c.lru
             /\ recency' = FilterKeys(recency, c.items)
             /\ pc' = [pc EXCEPT ![t] = "set_loop"]
             /\ UNCHANGED <<mu, key, tnow, ret, pre>>
  /\ UNCHANGED <<calls, cfgVars, workerVars, lifeVars, clock>>
  /\ UNCHANGED memVars

\* one test of the eviction loop: evict the back entry, or return and unlock
SetLoop(t) ==
  /\ pc[t] = "set_loop" /\ mu = t
  /\ IF OverCapacity(items, maxEntries) /\ lru # <<>>
     THEN LET c == deleteLocked(items, lru, Back(lru).key)
          IN /\ items' = c.items
             /\ lru' = c.lru
             /\ recency' = FilterKeys(recency, c.items)
             /\ UNCHANGED <<mu, pc, key, tnow, ret, pre>>
     ELSE /\ Return(t, ErrRet("Set", "nil"))
          /\ mu' = NoThread
          /\ pre' = NoPre
          /\ UNCHANGED <<items, lru, recency>>
  /\ UNCHANGED <<calls, cfgVars, workerVars, lifeVars, clock>>
  /\ UNCHANGED memVars

\* ------------------------------------------------------------------- Get
\* now := time.Now(), before any lock
GetStart(t, k) ==
  /\ Call(t)
  /\ pc' = [pc EXCEPT ![t] = "get_rlock"]
  /\ key' = [key EXCEPT ![t] = k]
  /\ tnow' = [tnow EXCEPT ![t] = clock]
  /\ ret' = [ret EXCEPT ![t] = NoRet]
  /\ UNCHANGED <<cfgVars, workerVars, lifeVars, clock, items, lru, mu, pre,
                 recency>>
  /\ UNCHANGED memVars

\* the shared section: look the key up and test its expiry
GetRLock(t) ==
  /\ pc[t] = "get_rlock" /\ mu = NoThread
  /\ IF key[t] \notin items
     THEN Return(t, GetRet(NilBytes, FALSE))
     ELSE IF Expired(Elem(lru, key[t]), tnow[t])
     THEN /\ pc' = [pc EXCEPT ![t] = "get_expired"]
          /\ UNCHANGED <<key, tnow, ret>>
     ELSE /\ pc' = [pc EXCEPT ![t] = "get_confirm"]
          /\ UNCHANGED <<key, tnow, ret>>
  /\ UNCHANGED <<calls, cfgVars, workerVars, lifeVars, clock, items, lru, mu, pre,
                 recency>>
  /\ UNCHANGED memVars

\* the expired branch: Lock, deleteIfExpiredLocked, return not found
GetExpired(t) ==
  /\ pc[t] = "get_expired" /\ mu = NoThread
  /\ LET c == deleteIfExpiredLocked(items, lru, key[t], tnow[t])
     IN /\ items' = c.items
        /\ lru' = c.lru
        /\ recency' = FilterKeys(recency, c.items)
  /\ Return(t, GetRet(NilBytes, FALSE))
  /\ UNCHANGED <<calls, cfgVars, workerVars, lifeVars, clock, mu, pre>>
  /\ UNCHANGED memVars

\* mutant: the exclusive step trusts the shared check and does not look the
\* key up again
GetConfirmNoRecheck(t) ==
  /\ pc[t] = "get_confirm" /\ mu = NoThread
  /\ IF key[t] \notin items
     THEN /\ Return(t, GetRet(NilBytes, TRUE))
          /\ UNCHANGED <<items, lru, recency, memVars>>
     ELSE /\ lru' = MoveToFront(lru, key[t])
          /\ items' = items
          /\ recency' = Touch(recency, key[t])
          /\ LET out == cloneBytes(Slice(ValueOf(key[t]), Elem(lru, key[t]).value))
             IN /\ Return(t, GetRet(Bytes(out), TRUE))
                /\ alias' = LinkGot(alias, GotOf(t), key[t], out)
                /\ UNCHANGED buf
  /\ UNCHANGED <<calls, cfgVars, workerVars, lifeVars, clock, mu, pre>>

\* mutant: a Get returns the value without promoting the entry
GetConfirmNoPromote(t) ==
  /\ pc[t] = "get_confirm" /\ mu = NoThread
  /\ IF key[t] \notin items
     THEN /\ Return(t, GetRet(NilBytes, FALSE))
          /\ UNCHANGED <<items, lru, recency, memVars>>
     ELSE IF Expired(Elem(lru, key[t]), tnow[t])
     THEN LET c == deleteLocked(items, lru, key[t])
          IN /\ items' = c.items
             /\ lru' = c.lru
             /\ recency' = FilterKeys(recency, c.items)
             /\ Return(t, GetRet(NilBytes, FALSE))
             /\ UNCHANGED memVars
     ELSE /\ lru' = lru
          /\ items' = items
          /\ recency' = Touch(recency, key[t])
          /\ LET out == cloneBytes(Slice(ValueOf(key[t]), Elem(lru, key[t]).value))
             IN /\ Return(t, GetRet(Bytes(out), TRUE))
                /\ alias' = LinkGot(alias, GotOf(t), key[t], out)
                /\ UNCHANGED buf
  /\ UNCHANGED <<calls, cfgVars, workerVars, lifeVars, clock, mu, pre>>

\* the live branch: Lock, re-check, MoveToFront and copy the value
GetConfirm(t) ==
  /\ pc[t] = "get_confirm" /\ mu = NoThread
  /\ IF key[t] \notin items
     THEN /\ Return(t, GetRet(NilBytes, FALSE))
          /\ UNCHANGED <<items, lru, recency, memVars>>
     ELSE IF Expired(Elem(lru, key[t]), tnow[t])
     THEN LET c == deleteLocked(items, lru, key[t])
          IN /\ items' = c.items
             /\ lru' = c.lru
             /\ recency' = FilterKeys(recency, c.items)
             /\ Return(t, GetRet(NilBytes, FALSE))
             /\ UNCHANGED memVars
     ELSE /\ lru' = MoveToFront(lru, key[t])
          /\ items' = items
          /\ recency' = Touch(recency, key[t])
          /\ LET out == cloneBytes(Slice(ValueOf(key[t]), Elem(lru, key[t]).value))
             IN /\ Return(t, GetRet(Bytes(out), TRUE))
                /\ alias' = LinkGot(alias, GotOf(t), key[t], out)
                /\ UNCHANGED buf
  /\ UNCHANGED <<calls, cfgVars, workerVars, lifeVars, clock, mu, pre>>

\* ---------------------------------------------------------------- Delete
\* mutant: Delete without the closed check
DeleteUnchecked(t, k) ==
  /\ Call(t) /\ mu = NoThread
  /\ LET c == deleteLocked(items, lru, k)
     IN /\ items' = c.items
        /\ lru' = c.lru
        /\ recency' = FilterKeys(recency, c.items)
        /\ Return(t, ErrRet("Delete", "nil"))
  /\ UNCHANGED <<cfgVars, workerVars, lifeVars, clock, mu, pre>>
  /\ UNCHANGED memVars

Delete(t, k) ==
  /\ Call(t) /\ mu = NoThread
  /\ IF closed
     THEN /\ Return(t, ErrRet("Delete", "ErrClosed"))
          /\ UNCHANGED <<items, lru, recency>>
     ELSE LET c == deleteLocked(items, lru, k)
          IN /\ items' = c.items
             /\ lru' = c.lru
             /\ recency' = FilterKeys(recency, c.items)
             /\ Return(t, ErrRet("Delete", "nil"))
  /\ UNCHANGED <<cfgVars, workerVars, lifeVars, clock, mu, pre>>
  /\ UNCHANGED memVars

\* ------------------------------------------------------------ Len, Keys
\* the keys a Get starting at time now would find
Findable(its, l, now) == {k \in its : HasElem(l, k) /\ ~Expired(Elem(l, k), now)}

\* mutant: Len counts only the entries that have not expired
LenOpLiveOnly(t) ==
  /\ Call(t) /\ mu = NoThread
  /\ Return(t, [op |-> "Len", n |-> Cardinality(Findable(items, lru, clock)),
                at |-> clock])
  /\ UNCHANGED <<cfgVars, workerVars, lifeVars, clock, items, lru, mu, pre,
                 recency>>
  /\ UNCHANGED memVars

\* RLock; len(c.items).  The return value carries, as history, the time of
\* the call.
LenOp(t) ==
  /\ Call(t) /\ mu = NoThread
  /\ Return(t, [op |-> "Len", n |-> Cardinality(items), at |-> clock])
  /\ UNCHANGED <<cfgVars, workerVars, lifeVars, clock, items, lru, mu, pre,
                 recency>>
  /\ UNCHANGED memVars

\* mutant: Keys walks the list from the back
KeysOpBackToFront(t) ==
  /\ Call(t) /\ mu = NoThread
  /\ Return(t, [op |-> "Keys", keys |-> [i \in 1..Len(lru) |-> lru[Len(lru) + 1 - i].key]])
  /\ UNCHANGED <<cfgVars, workerVars, lifeVars, clock, items, lru, mu, pre,
                 recency>>
  /\ UNCHANGED memVars

\* RLock; walk the list from Front to the end, appending each key
KeysOp(t) ==
  /\ Call(t) /\ mu = NoThread
  /\ Return(t, [op |-> "Keys", keys |-> KeySeq(lru)])
  /\ UNCHANGED <<cfgVars, workerVars, lifeVars, clock, items, lru, mu, pre,
                 recency>>
  /\ UNCHANGED memVars

\* ----------------------------------------------------------------- Close
\* mutant: a repeated Close reports an error
CloseLockTwiceFails(t) ==
  /\ Call(t) /\ mu = NoThread
  /\ IF closed
     THEN /\ Return(t, ErrRet("Close", "ErrClosed"))
          /\ UNCHANGED closed
     ELSE /\ closed' = TRUE
          /\ pc' = [pc EXCEPT ![t] = "close_cancel"]
          /\ ret' = [ret EXCEPT ![t] = NoRet]
          /\ UNCHANGED <<key, tnow>>
  /\ UNCHANGED <<cfgVars, workerVars, ctxDone, wg, clock, items, lru, mu, pre,
                 recency>>
  /\ UNCHANGED memVars

\* mutant: Close cancels in its critical section and does not set the flag
CloseLockCancelsUnflagged(t) ==
  /\ Call(t) /\ mu = NoThread
  /\ IF closed
     THEN /\ Return(t, ErrRet("Close", "nil"))
          /\ UNCHANGED ctxDone
     ELSE /\ ctxDone' = TRUE
          /\ pc' = [pc EXCEPT ![t] = "close_cancel"]
          /\ ret' = [ret EXCEPT ![t] = NoRet]
          /\ UNCHANGED <<key, tnow>>
  /\ UNCHANGED <<cfgVars, workerVars, closed, wg, clock, items, lru, mu, pre,
                 recency>>
  /\ UNCHANGED memVars

\* mutant: Close keeps the lock while it cancels and waits
CloseLockHeld(t) ==
  /\ Call(t) /\ mu = NoThread
  /\ IF closed
     THEN /\ Return(t, ErrRet("Close", "nil"))
          /\ UNCHANGED <<closed, mu>>
     ELSE /\ closed' = TRUE
          /\ mu' = t
          /\ pc' = [pc EXCEPT ![t] = "close_cancel"]
          /\ ret' = [ret EXCEPT ![t] = NoRet]
          /\ UNCHANGED <<key, tnow>>
  /\ UNCHANGED <<cfgVars, workerVars, ctxDone, wg, clock, items, lru, pre,
                 recency>>
  /\ UNCHANGED memVars

\* Lock; return if closed, else set the flag; Unlock
CloseLock(t) ==
  /\ Call(t) /\ mu = NoThread
  /\ IF closed
     THEN /\ Return(t, ErrRet("Close", "nil"))
          /\ UNCHANGED closed
     ELSE /\ closed' = TRUE
          /\ pc' = [pc EXCEPT ![t] = "close_cancel"]
          /\ ret' = [ret EXCEPT ![t] = NoRet]
          /\ UNCHANGED <<key, tnow>>
  /\ UNCHANGED <<cfgVars, workerVars, ctxDone, wg, clock, items, lru, mu, pre,
                 recency>>
  /\ UNCHANGED memVars

\* cancel()
CloseCancel(t) ==
  /\ pc[t] = "close_cancel"
  /\ ctxDone' = TRUE
  /\ pc' = [pc EXCEPT ![t] = "close_wait"]
  /\ UNCHANGED <<calls, cfgVars, workerVars, closed, wg, clock, items, lru, mu, key,
                 tnow, ret, pre, recency>>
  /\ UNCHANGED memVars

\* c.wg.Wait(); return nil
CloseWait(t) ==
  /\ pc[t] = "close_wait"
  /\ wg = 0
  /\ Return(t, ErrRet("Close", "nil"))
  /\ UNCHANGED <<calls, cfgVars, workerVars, lifeVars, clock, items, lru, mu, pre,
                 recency>>
  /\ UNCHANGED memVars

\* ------------------------------------------------- the maintenance worker
\* the ticker is running from New until the worker's deferred ticker.Stop
TickerRunning == wpc \in {"select", "sweep"}

\* the ticker's send at time now: dropped when the channel is full
TickerSend(now) == IF TickerRunning /\ tickC = <<>> THEN <<now>> ELSE tickC

\* time past the modelled horizon: the clock reads MaxTime from then on, and
\* the ticker keeps sending
Tick ==
  /\ clock = MaxTime
  /\ TickerRunning
  /\ tickC = <<>>
  /\ tickC' = TickerSend(clock)
  /\ UNCHANGED <<calls, cfgVars, lifeVars, wpc, wnow, clock, items, lru, mu, pc, key,
                 tnow, ret, pre, recency>>
  /\ UNCHANGED memVars

\* select: case now := <-ticker.C
WorkerRecv ==
  /\ wpc = "select"
  /\ tickC # <<>>
  /\ wnow' = Head(tickC)
  /\ tickC' = Tail(tickC)
  /\ wpc' = "sweep"
  /\ UNCHANGED <<calls, cfgVars, lifeVars, clock, items, lru, mu, pc, key, tnow, ret,
                 pre, recency>>
  /\ UNCHANGED memVars

\* select: case <-c.ctx.Done(); the deferred ticker.Stop and wg.Done run
WorkerExit ==
  /\ wpc = "select"
  /\ ctxDone
  /\ wpc' = "done"
  /\ wg' = wg - 1
  /\ UNCHANGED <<calls, cfgVars, closed, ctxDone, tickC, wnow, clock, items, lru, mu,
                 pc, key, tnow, ret, pre, recency>>
  /\ UNCHANGED memVars

\* mutant: the worker takes the lock on a tick but does not sweep
WorkerSweepIdle ==
  /\ wpc = "sweep" /\ mu = NoThread
  /\ wpc' = "select"
  /\ wnow' = ZeroTime
  /\ UNCHANGED <<calls, cfgVars, lifeVars, tickC, clock, mu, pc, key, tnow, ret, pre,
                 items, lru, recency>>
  /\ UNCHANGED memVars

\* Lock; deleteExpiredLocked(now); Unlock
WorkerSweep ==
  /\ wpc = "sweep" /\ mu = NoThread
  /\ LET c == deleteExpiredLocked(items, lru, wnow)
     IN /\ items' = c.items
        /\ lru' = c.lru
        /\ recency' = FilterKeys(recency, c.items)
  /\ wpc' = "select"
  /\ wnow' = ZeroTime
  /\ UNCHANGED <<calls, cfgVars, lifeVars, tickC, clock, mu, pc, key, tnow, ret, pre>>
  /\ UNCHANGED memVars

\* ----------------------------------------------------------------- clock
\* one cleanup interval passes: the clock moves on and the ticker fires
Advance ==
  /\ clock < MaxTime
  /\ clock' = clock + 1
  /\ tickC' = TickerSend(clock + 1)
  /\ UNCHANGED <<calls, cfgVars, wpc, wnow, lifeVars, items, lru, mu, pc, key, tnow,
                 ret, pre, recency>>
  /\ UNCHANGED memVars

\* ------------------------------------------------- clients' own buffers
\* the list after a client has written w through the slice it holds as h:
\* every stored value that shares h's array reads w from then on
WriteThrough(l, al, h, w) ==
  [i \in 1..Len(l) |->
     IF <<h, l[i].key>> \in al THEN [l[i] EXCEPT !.value = w] ELSE l[i]]

\* a client overwrites the buffer it passed to a Set that has returned
ScribbleArg(t, w) ==
  /\ keepArgs /\ pc[t] = "idle"
  /\ buf[t] # NilBytes /\ w # buf[t]
  /\ buf' = [buf EXCEPT ![t] = w]
  /\ lru' = WriteThrough(lru, alias, ArgOf(t), w)
  /\ UNCHANGED <<calls, cfgVars, workerVars, lifeVars, clock, items, mu, pc, key, tnow,
                 ret, pre, recency, alias>>

\* a client overwrites the buffer its last Get returned
ScribbleGot(t, w) ==
  /\ pc[t] = "idle"
  /\ ret[t].op = "Get" /\ ret[t].found /\ w # ret[t].value
  /\ ret' = [ret EXCEPT ![t] = GetRet(w, TRUE)]
  /\ lru' = WriteThrough(lru, alias, GotOf(t), w)
  /\ UNCHANGED <<calls, cfgVars, workerVars, lifeVars, clock, items, mu, pc, key, tnow,
                 pre, recency, buf, alias>>

\* --------------------------------------------------------- specification
Next ==
  \/ \E t \in Threads, k \in Keys, v \in Values, ttl \in TTLs : SetLock(t, k, v, ttl)
  \/ \E t \in Threads : SetIndex(t)
  \/ \E t \in Threads : SetEvict(t)
  \/ \E t \in Threads : SetLoop(t)
  \/ \E t \in Threads, k \in Keys : GetStart(t, k)
  \/ \E t \in Threads : GetRLock(t)
  \/ \E t \in Threads : GetExpired(t)
  \/ \E t \in Threads : GetConfirm(t)
  \/ \E t \in Threads, k \in Keys : Delete(t, k)
  \/ \E t \in Threads : LenOp(t)
  \/ \E t \in Threads : KeysOp(t)
  \/ \E t \in Threads : CloseLock(t)
  \/ \E t \in Threads : CloseCancel(t)
  \/ \E t \in Threads : CloseWait(t)
  \/ Tick
  \/ WorkerRecv
  \/ WorkerExit
  \/ WorkerSweep
  \/ Advance

Spec == Init /\ [][Next]_vars

\* A bounded cache without worker, used by one client: Set and Get in
\* sequence, as in TestLRUEviction.
SeqInit == budget = SeqBudget /\ keepArgs = FALSE /\ New([MaxEntries |-> MaxCap, CleanupInterval |-> 0])

SeqNext ==
  \/ \E t \in Threads, k \in Keys, v \in Values, ttl \in TTLs : SetLock(t, k, v, ttl)
  \/ \E t \in Threads : SetIndex(t)
  \/ \E t \in Threads : SetEvict(t)
  \/ \E t \in Threads : SetLoop(t)
  \/ \E t \in Threads, k \in Keys : GetStart(t, k)
  \/ \E t \in Threads : GetRLock(t)
  \/ \E t \in Threads : GetExpired(t)
  \/ \E t \in Threads : GetConfirm(t)
  \/ Advance

SeqSpec == SeqInit /\ [][SeqNext]_vars

\* The demo program: a bounded cache with its worker running, used by one
\* client that Sets, Gets and lists the keys in sequence (Close is deferred to
\* the end of main).
DemoInit == budget = SeqBudget /\ keepArgs = FALSE /\ New([MaxEntries |-> MaxCap, CleanupInterval |-> 1])

DemoNext ==
  \/ \E t \in Threads, k \in Keys, v \in Values, ttl \in TTLs : SetLock(t, k, v, ttl)
  \/ \E t \in Threads : SetIndex(t)
  \/ \E t \in Threads : SetEvict(t)
  \/ \E t \in Threads : SetLoop(t)
  \/ \E t \in Threads, k \in Keys : GetStart(t, k)
  \/ \E t \in Threads : GetRLock(t)
  \/ \E t \in Threads : GetExpired(t)
  \/ \E t \in Threads : GetConfirm(t)
  \/ \E t \in Threads : LenOp(t)
  \/ \E t \in Threads : KeysOp(t)
  \/ Tick
  \/ WorkerRecv
  \/ WorkerSweep
  \/ Advance

DemoSpec == DemoInit /\ [][DemoNext]_vars

\* A bounded cache without worker whose two clients Set and Get, keep the
\* buffers they passed and received, and overwrite them between calls.
AliasInit ==
  budget = Budget /\ keepArgs = TRUE /\ New([MaxEntries |-> MaxCap, CleanupInterval |-> 0])

AliasNext ==
  \/ \E t \in Threads, k \in Keys, v \in Values, ttl \in TTLs : SetLock(t, k, v, ttl)
  \/ \E t \in Threads : SetIndex(t)
  \/ \E t \in Threads : SetEvict(t)
  \/ \E t \in Threads : SetLoop(t)
  \/ \E t \in Threads, k \in Keys : GetStart(t, k)
  \/ \E t \in Threads : GetRLock(t)
  \/ \E t \in Threads : GetConfirm(t)
  \/ \E t \in Threads, w \in Values : ScribbleArg(t, w)
  \/ \E t \in Threads, w \in Values : ScribbleGot(t, w)

AliasSpec == AliasInit /\ [][AliasNext]_vars

\* A bounded cache with its worker running, whose clients only Set and Close
\* (no Get or Delete touches an entry), under fair scheduling: time passes
\* and the ticker keeps firing, the worker goroutine runs when it can, Lock
\* is starvation-free (sync.Mutex hands the lock to a waiter that has waited
\* long), and a goroutine inside Set's critical section keeps running.
LiveInit == budget = Budget /\ keepArgs = FALSE /\ New([MaxEntries |-> MaxCap, CleanupInterval |-> 1])

LiveNext ==
  \/ \E t \in Threads, k \in Keys, v \in Values, ttl \in TTLs : SetLock(t, k, v, ttl)
  \/ \E t \in Threads : SetIndex(t)
  \/ \E t \in Threads : SetEvict(t)
  \/ \E t \in Threads : SetLoop(t)
  \/ \E t \in Threads : CloseLock(t)
  \/ \E t \in Threads : CloseCancel(t)
  \/ \E t \in Threads : CloseWait(t)
  \/ Tick
  \/ WorkerRecv
  \/ WorkerExit
  \/ WorkerSweep
  \/ Advance

Fairness ==
  /\ WF_vars(Advance)
  /\ WF_vars(Tick)
  /\ WF_vars(WorkerRecv)
  /\ SF_vars(WorkerSweep)
  /\ \A t \in Threads : WF_vars(SetIndex(t) \/ SetEvict(t) \/ SetLoop(t))

LiveSpec == LiveInit /\ [][LiveNext]_vars /\ Fairness

\* A bounded cache with its worker running, whose clients Set, Get, Delete
\* and Close, under fair scheduling: as in LiveSpec, and moreover a goroutine
\* past Close's critical section keeps running, and the worker's select,
\* which picks among its ready cases at random, does not pass over a ready
\* ctx.Done() forever.
ShutdownNext ==
  \/ \E t \in Threads, k \in Keys, v \in Values, ttl \in TTLs : SetLock(t, k, v, ttl)
  \/ \E t \in Threads : SetIndex(t)
  \/ \E t \in Threads : SetEvict(t)
  \/ \E t \in Threads : SetLoop(t)
  \/ \E t \in Threads, k \in Keys : GetStart(t, k)
  \/ \E t \in Threads : GetRLock(t)
  \/ \E t \in Threads : GetExpired(t)
  \/ \E t \in Threads : GetConfirm(t)
  \/ \E t \in Threads, k \in Keys : Delete(t, k)
  \/ \E t \in Threads : CloseLock(t)
  \/ \E t \in Threads : CloseCancel(t)
  \/ \E t \in Threads : CloseWait(t)
  \/ Tick
  \/ WorkerRecv
  \/ WorkerExit
  \/ WorkerSweep
  \/ Advance

ShutdownFairness ==
  /\ Fairness
  /\ SF_vars(WorkerExit)
  /\ \A t \in Threads : WF_vars(CloseCancel(t)) /\ WF_vars(CloseWait(t))

ShutdownSpec == LiveInit /\ [][ShutdownNext]_vars /\ ShutdownFairness

\* ------------------------------------------------------------ properties
\* "expired at time now", as the documentation states it: now >= ExpiresAt
ExpiredAt(e, now) == e.hasExpiry /\ e.expiresAt <= now
Min(a, b) == IF a <= b THEN a ELSE b
Front(l) == SubSeq(l, 1, Len(l) - 1)
SetDone(t) == pc[t] = "set_loop" /\ ~(Cardinality(items) > maxEntries)

\* C1: with maxEntries = N > 0, whenever no Set holds the exclusive lock the
\* map and the list each hold at most N entries.
C1_CapacityBound ==
  (maxEntries > 0 /\ mu = NoThread) =>
    (Cardinality(items) <= maxEntries /\ Len(lru) <= maxEntries)

\* a full cache of capacity 1 whose only key "a" (seen by Keys) was evicted by
\* the Set of "b", with nothing expired and no worker
C1_Witness ==
  /\ maxEntries = 1 /\ cleanupEvery = 0 /\ clock = 1 /\ mu = NoThread
  /\ ret["t2"] = [op |-> "Keys", keys |-> <<"a">>]
  /\ ret["t1"] = ErrRet("Set", "nil")
  /\ items = {"b"}

\* C2: when a Set of a new key finds N = maxEntries >= 1 entries, none of them
\* expired, then on its return exactly the key used least recently (the back
\* of the order the Set found) is gone, the new key is at the front, and every
\* other entry is stored unchanged, in its old order, and not expired.
C2_EvictsLeastRecent ==
  \A t \in Threads :
    (/\ SetDone(t)
     /\ maxEntries >= 1
     /\ Len(pre.lru) = maxEntries
     /\ key[t] \notin KeysOf(pre.lru)
     /\ \A i \in 1..Len(pre.lru) : ~ExpiredAt(pre.lru[i], tnow[t]))
    => LET victim == pre.recency[Len(pre.recency)]
       IN /\ victim = pre.lru[Len(pre.lru)].key
          /\ items = (KeysOf(pre.lru) \ {victim}) \cup {key[t]}
          /\ KeysOf(lru) = items
          /\ lru[1].key = key[t]
          /\ Tail(lru) = Front(pre.lru)
          /\ \A i \in 1..Len(lru) : ~ExpiredAt(lru[i], tnow[t])

\* TestLRUEviction: Set a, Set b, Get a, Set c evicts b and keeps a
C2_Witness ==
  /\ maxEntries = 2
  /\ SetDone("t1")
  /\ calls["t1"] = 4
  /\ pre.recency = <<"a", "b">>
  /\ KeySeq(lru) = <<"c", "a">>
  /\ items = {"a", "c"}

\* C3: whenever the exclusive lock is not held, the map's keys are the list's
\* keys and each appears once in the list.
C3_IndexMatchesList ==
  mu = NoThread => (KeysOf(lru) = items /\ Len(lru) = Cardinality(items))

\* a Delete and a worker sweep have run and one entry is left
C3_Witness ==
  /\ mu = NoThread
  /\ Cardinality(items) = 1
  /\ ret["t2"] = ErrRet("Delete", "nil")
  /\ ret["t1"] = ErrRet("Set", "nil")
  /\ calls["t1"] = 2
  /\ wpc = "select" /\ clock = MaxTime /\ tickC = <<>>

\* C4: once a Set with maxEntries > 0 has swept, no stored entry is expired at
\* the Set's time, only entries not expired at that time are left to evict,
\* and the loop evicts no more of them than the capacity forces.
C4_ExpiredBeforeLive ==
  \A t \in Threads :
    pc[t] = "set_loop" =>
      LET live == {k \in KeysOf(pre.lru) \ {key[t]} :
                     ~ExpiredAt(Elem(pre.lru, k), tnow[t])} \cup {key[t]}
      IN /\ \A i \in 1..Len(lru) : ~ExpiredAt(lru[i], tnow[t])
         /\ items \subseteq live
         /\ Cardinality(items) >= Min(Cardinality(live), maxEntries)

\* capacity 2, the expired entry is the more recently used one: it is swept
\* and the live entry at the back is not evicted
C4_Witness ==
  /\ maxEntries = 2
  /\ SetDone("t1")
  /\ Len(pre.lru) = 2
  /\ ExpiredAt(pre.lru[1], tnow["t1"])
  /\ ~ExpiredAt(pre.lru[2], tnow["t1"])
  /\ key["t1"] \notin KeysOf(pre.lru)
  /\ items = {key["t1"], pre.lru[2].key}
\* the exclusive step of a Get by t
GetExclusive(t) == GetConfirm(t) \/ GetExpired(t)
Stored(k) == k \in items /\ HasElem(lru, k)

\* C5 as stated: a Get reports found only for an entry that has no expiry or
\* whose expiry is strictly later than the current time at the moment of its
\* exclusive step, and an entry expired at that time is removed.
C5_AsStated ==
  [][\A t \in Threads :
       (GetExclusive(t) /\ Stored(key[t])) =>
         IF ExpiredAt(Elem(lru, key[t]), clock)
         THEN ~ret'[t].found /\ key[t] \notin items'
         ELSE TRUE]_vars

\* C5, amended: the time is the one Get read on entry, before its shared
\* check.  Get reports found only for a stored entry not expired at that
\* time, and returns its value; an entry expired at that time is removed from
\* map and list, reported not found, and nothing else changes.
C5_ExpiryAtEntryTime ==
  [][\A t \in Threads :
       GetExclusive(t) =>
         /\ ret'[t].op = "Get"
         /\ ret'[t].found =>
              /\ Stored(key[t])
              /\ ~ExpiredAt(Elem(lru, key[t]), tnow[t])
              /\ ret'[t].value = Elem(lru, key[t]).value
         /\ (Stored(key[t]) /\ ExpiredAt(Elem(lru, key[t]), tnow[t])) =>
              /\ ~ret'[t].found
              /\ items' = items \ {key[t]}
              /\ lru' = Filter(lru, KeysOf(lru) \ {key[t]})]_vars

\* a Get has returned an entry whose expiry the clock has reached
C5_Witness ==
  \E t \in Threads :
    /\ ret[t].op = "Get" /\ ret[t].found
    /\ lru # <<>> /\ ExpiredAt(lru[1], clock)

\* C6: a Set or Delete that takes the lock while closed is set returns
\* ErrClosed and leaves map and list, with every value and expiry, as they are.
C6_ClosedRejectsMutation ==
  [][\A t \in Threads, k \in Keys :
       (closed /\ (Delete(t, k) \/ \E v \in Values, ttl \in TTLs : SetLock(t, k, v, ttl)))
       => /\ ret'[t] \in {ErrRet("Set", "ErrClosed"), ErrRet("Delete", "ErrClosed")}
          /\ pc'[t] = "idle"
          /\ UNCHANGED <<items, lru, closed>>]_vars

\* a Delete was refused on a closed cache that holds an entry
C6_Witness ==
  /\ closed /\ items # {}
  /\ ret["t1"] = ErrRet("Delete", "ErrClosed")
  /\ ret["t2"] = ErrRet("Close", "nil")

\* C7: every Close returns nil; the Close that finds the cache open closes it;
\* a Close that finds it closed changes nothing; closed never becomes false.
C7_CloseIdempotent ==
  [][/\ closed => closed'
     /\ \A t \in Threads :
          /\ ret'[t].op = "Close" => ret'[t] = ErrRet("Close", "nil")
          /\ CloseLock(t) => closed'
          /\ (CloseLock(t) /\ closed) =>
               /\ pc'[t] = "idle" /\ ret'[t].op = "Close"
               /\ UNCHANGED <<items, lru, closed, ctxDone, wg, mu, tickC, wpc, wnow>>]_vars

\* the closing Close and a repeated Close have both returned
C7_Witness ==
  /\ closed
  /\ calls["t1"] = 2
  /\ ret["t1"] = ErrRet("Close", "nil")
  /\ ret["t2"] = ErrRet("Close", "nil")
\* C8 as stated: whenever a Close has returned, the worker, if one was
\* started, has exited.
C8_CloseReturnsAfterWorkerExit ==
  \A t \in Threads :
    ret[t] = ErrRet("Close", "nil") => wpc \in {"off", "done"}

\* C9 as stated: once a Close has returned, no step changes the stored
\* entries or their order.
C9_NoMutationAfterClose ==
  [][(\E t \in Threads : ret[t] = ErrRet("Close", "nil"))
       => UNCHANGED <<items, lru>>]_vars

StoredWithExpiry(k) == Stored(k) /\ Elem(lru, k).hasExpiry

\* C10: with the worker running and no Get or Delete at all, a key stored with
\* an expiry is eventually no longer stored with one (swept, or overwritten
\* or evicted by a later Set), unless the cache is closed first.
C10_ExpiredEventuallySwept ==
  \A k \in Keys :
    (cleanupEvery > 0 /\ StoredWithExpiry(k)) ~> (closed \/ ~StoredWithExpiry(k))

\* the only call so far was a Set, and its entry is gone: the worker swept it
C10_Witness ==
  /\ cleanupEvery > 0 /\ ~closed
  /\ calls = [t \in Threads |-> IF t = "t1" THEN 1 ELSE 0]
  /\ ret["t1"] = ErrRet("Set", "nil")
  /\ items = {} /\ lru = <<>>
  /\ wpc = "select"

\* the entry a Set(k, v, ttl) that reads the time now is to store
EntryOfSet(k, v, ttl, now) ==
  NewEntry(k, v, ttl > 0, IF ttl > 0 THEN now + ttl ELSE ZeroTime)
\* a later step of the Set that t is running
SetStep(t) == SetIndex(t) \/ SetEvict(t) \/ SetLoop(t)

\* C11: a Set(k, v, ttl) on an open cache puts at the front an entry for k
\* that holds v and the expiry computed from ttl and the Set's own time (none
\* when ttl <= 0), its later steps leave that front entry alone, and when it
\* returns success k is indexed and first; and whenever a stored key's entry
\* changes, a single Set wrote its value and expiry together.
C11_SetStoresOneSet ==
  [][/\ \A t \in Threads, k \in Keys, v \in Values, ttl \in TTLs :
          (SetLock(t, k, v, ttl) /\ ~closed) =>
             /\ lru'[1] = EntryOfSet(k, v, ttl, clock)
             /\ Len(lru') = Cardinality(KeysOf(lru'))
     /\ \A t \in Threads :
          SetStep(t) =>
             /\ lru' # <<>> /\ lru'[1] = lru[1]
             /\ ret'[t] = ErrRet("Set", "nil") =>
                  (key[t] \in items' /\ lru'[1].key = key[t])
     /\ \A k \in Keys :
          (HasElem(lru, k) /\ HasElem(lru', k) /\ Elem(lru', k) # Elem(lru, k)) =>
             \E t \in Threads, v \in Values, ttl \in TTLs :
               SetLock(t, k, v, ttl) /\ Elem(lru', k) = EntryOfSet(k, v, ttl, clock)]_vars

\* after a Set to k by the other client returned, a Set to k without ttl has
\* replaced an entry that had an expiry and another value
C11_Witness ==
  /\ pc["t1"] \in {"set_evict", "set_loop"}
  /\ ret["t2"] = ErrRet("Set", "nil")
  /\ HasElem(pre.lru, key["t1"])
  /\ Elem(pre.lru, key["t1"]).hasExpiry
  /\ Elem(pre.lru, key["t1"]).value # lru[1].value
  /\ lru[1].key = key["t1"] /\ ~lru[1].hasExpiry /\ lru[1].expiresAt = ZeroTime

\* C12: Keys returns the stored keys, each once, in the order of their last
\* successful Set or Get, newest first; Keys and Len leave map and list alone.
C12_KeysInRecencyOrder ==
  [][\A t \in Threads :
       /\ KeysOp(t) =>
            /\ ret'[t].op = "Keys"
            /\ ret'[t].keys = recency
            /\ Range(ret'[t].keys) = items
            /\ Len(ret'[t].keys) = Cardinality(items)
            /\ UNCHANGED <<items, lru, recency>>
       /\ LenOp(t) => UNCHANGED <<items, lru, recency>>]_vars

\* the demo: Set a, Set b, Get a, and Keys lists a before b
C12_Witness ==
  /\ calls["t1"] = 4
  /\ ret["t1"] = [op |-> "Keys", keys |-> <<"a", "b">>]
  /\ lru # <<>> /\ Back(lru).key = "b" /\ Back(lru).value = <<2>>
  /\ ~lru[1].hasExpiry /\ ~Back(lru).hasExpiry

\* C13: a Delete(k) on an open cache returns nil; afterwards k is in neither
\* map nor list, and the list is the old list without k's entry: all other
\* entries keep value, expiry and order.  When k was absent nothing changes.
C13_DeleteRemovesOnlyKey ==
  [][\A t \in Threads, k \in Keys :
       (Delete(t, k) /\ ~closed) =>
          /\ ret'[t] = ErrRet("Delete", "nil")
          /\ items' = items \ {k}
          /\ lru' = SelectSeq(lru, LAMBDA e : e.key # k)
          /\ ~HasElem(lru', k)
          /\ k \notin items => UNCHANGED <<items, lru>>]_vars

\* Keys showed "a" as the only key, and the other client's Delete removed it
C13_Witness ==
  /\ maxEntries = 0 /\ cleanupEvery = 0 /\ ~closed
  /\ calls["t1"] = 2
  /\ ret["t1"] = [op |-> "Keys", keys |-> <<"a">>]
  /\ ret["t2"] = ErrRet("Delete", "nil")
  /\ items = {} /\ lru = <<>>

\* C14: Len returns the number of keys in the map, which is the number of
\* list entries, expired ones included; that is never less than the number of
\* keys a Get would find at that moment.
C14_LenCountsExpired ==
  [][\A t \in Threads :
       LenOp(t) =>
          /\ ret'[t].op = "Len"
          /\ ret'[t].n = Cardinality(items)
          /\ ret'[t].n = Len(lru)
          /\ ret'[t].n >= Cardinality({k \in Keys :
                                        Stored(k) /\ ~ExpiredAt(Elem(lru, k), clock)})]_vars

\* no worker, no other client: Set "a" with a ttl, and at the time of its
\* expiry Len still counts it, although a Get would not find it
C14_Witness ==
  /\ cleanupEvery = 0 /\ calls["t2"] = 0 /\ calls["t1"] = 2
  /\ ret["t1"] = [op |-> "Len", n |-> 1, at |-> MaxTime]
  /\ items = {"a"} /\ Len(lru) = 1
  /\ ExpiredAt(lru[1], MaxTime)

\* C15: a client overwriting the buffer it passed to Set, or the buffer a Get
\* returned, leaves every stored value as it was; and a Get that finds its key
\* returns the bytes stored for it.
C15_NoAliasing ==
  [][/\ \A t \in Threads, w \in Values :
          (ScribbleArg(t, w) \/ ScribbleGot(t, w)) => UNCHANGED <<items, lru>>
     /\ \A t \in Threads :
          (GetConfirm(t) /\ ret'[t].found) =>
             ret'[t].value = Elem(lru, key[t]).value]_vars

\* t1 Set "a" to 1 and later overwrote its buffer with 2; t2 read 1 and
\* overwrote what it got with 2; t1 then still read 1
C15_Witness ==
  /\ calls["t1"] = 2 /\ calls["t2"] = 1
  /\ buf["t1"] = <<2>>
  /\ ret["t2"] = GetRet(<<2>>, TRUE)
  /\ ret["t1"] = GetRet(<<1>>, TRUE)
  /\ items = {"a"} /\ Elem(lru, "a").value = <<1>>

InClose(t) == pc[t] \in {"close_cancel", "close_wait"}

\* C16: no goroutine keeps the exclusive lock forever, so a Close waiting for
\* it gets it; and a Close that has set the flag returns nil, whatever the
\* worker was doing when the flag was set.
C16_CloseReturns ==
  \A t \in Threads :
    /\ (mu = t) ~> (mu = NoThread)
    /\ InClose(t) ~> (pc[t] = "idle" /\ ret[t] = ErrRet("Close", "nil"))

\* both clients' Close calls have returned and the worker has exited; it left
\* behind an entry that had expired: the cancellation won the race with the
\* tick
C16_Witness ==
  /\ ret["t1"] = ErrRet("Close", "nil") /\ calls["t1"] = 2
  /\ ret["t2"] = ErrRet("Close", "nil")
  /\ cleanupEvery > 0 /\ wpc = "done" /\ wg = 0 /\ ctxDone
  /\ clock = MaxTime
  /\ lru # <<>> /\ ExpiredAt(lru[1], clock)

InSet(t) == pc[t] \in {"set_index", "set_evict", "set_loop"}

\* C17: the context is cancelled only when closed is already set; from then
\* on no Set is under way, and every Set or Delete returns ErrClosed and
\* leaves map and list as they are.
C17_CancelAfterClosed ==
  [][/\ ctxDone' => closed'
     /\ ctxDone => \A t \in Threads : ~InSet(t) /\ ~InSet(t)'
     /\ \A t \in Threads, k \in Keys :
          (ctxDone /\ (Delete(t, k) \/ \E v \in Values, ttl \in TTLs : SetLock(t, k, v, ttl)))
          => /\ ret'[t].err = "ErrClosed"
             /\ UNCHANGED <<items, lru>>]_vars

\* t1 closed the cache, Close returned, and its next call, a Set, was refused;
\* the entry t2 had stored before is still there
C17_Witness ==
  /\ ctxDone /\ closed
  /\ calls["t1"] = 2 /\ pc["t1"] = "idle" /\ ret["t1"] = ErrRet("Set", "ErrClosed")
  /\ ret["t2"] = ErrRet("Set", "nil")
  /\ items # {}

\* any step of a Get by t
GetStep(t) == (\E k \in Keys : GetStart(t, k)) \/ GetRLock(t) \/ GetExclusive(t)

\* C18: a Get whose key is not in the map at its exclusive step returns not
\* found and changes neither map nor list; and no step of a Get adds a key to
\* the map or an entry to the list.
C18_GetAfterRemoval ==
  [][\A t \in Threads :
       /\ (GetExclusive(t) /\ key[t] \notin items) =>
            /\ ret'[t] = GetRet(NilBytes, FALSE)
            /\ UNCHANGED <<items, lru>>
       /\ GetStep(t) =>
            /\ items' \subseteq items
            /\ KeysOf(lru') \subseteq KeysOf(lru)
            /\ Len(lru') <= Len(lru)]_vars

\* t2's Get of "a" is past its shared check, where it found "a" live, and
\* t1's Delete has removed "a" since
C18_Witness ==
  /\ pc["t2"] = "get_confirm" /\ key["t2"] = "a"
  /\ "a" \notin items /\ ~HasElem(lru, "a")
  /\ ret["t1"] = ErrRet("Delete", "nil")

\* C19: the exclusive step of a Get removes nothing but the entry of its own
\* key, and that only if the entry it finds there is expired at the time the
\* Get read on entry; every entry that stays keeps its value and expiry.
C19_GetDeletesOnlyExpired ==
  [][\A t \in Threads :
       GetExclusive(t) =>
          /\ \A k \in items \ items' :
               k = key[t] /\ ExpiredAt(Elem(lru, k), tnow[t])
          /\ \A k \in items' : HasElem(lru', k) /\ Elem(lru', k) = Elem(lru, k)]_vars

\* t2's Get of "a" found it expired in the shared check; before its
\* exclusive step a Set has replaced the entry with one that is not expired
C19_Witness ==
  /\ pc["t2"] = "get_expired" /\ key["t2"] = "a"
  /\ Stored("a") /\ ~ExpiredAt(Elem(lru, "a"), tnow["t2"])
  /\ ret["t1"] = ErrRet("Set", "nil") /\ calls["t1"] = 2

ReadsOrDeletes(k) ==
  \E t \in Threads : (GetExclusive(t) /\ key[t] = k) \/ Delete(t, k)
\* the step is the capacity enforcement of a Set on a bounded cache
EnforcesCapacity == maxEntries > 0 /\ \E t \in Threads : SetEvict(t) \/ SetLoop(t)

\* C21: with cleanupEvery <= 0 there is no worker, no tick and no sweep by a
\* worker; a key whose entry is expired leaves map or list only in a Get of
\* that key, a Delete of that key, or the capacity enforcement of a Set with
\* maxEntries > 0; and with maxEntries <= 0 too, no key at all leaves except
\* in a Get or Delete of it.
C21_NoWorkerNoSweep ==
  [][cleanupEvery <= 0 =>
       /\ wpc = "off" /\ wpc' = "off" /\ wg = 0 /\ tickC' = <<>>
       /\ ~WorkerSweep
       /\ \A k \in Keys :
            (Stored(k) /\ ExpiredAt(Elem(lru, k), clock) /\ ~Stored(k)') =>
               (ReadsOrDeletes(k) \/ EnforcesCapacity)
       /\ maxEntries <= 0 =>
            \A k \in Keys : (Stored(k) /\ ~Stored(k)') => ReadsOrDeletes(k)]_vars

\* unbounded, no worker: "a" has expired, nobody has read or deleted it, a
\* Set of "b" has run, and Keys still lists "a"
C21_Witness ==
  /\ maxEntries = 0 /\ cleanupEvery = 0 /\ wpc = "off"
  /\ clock = MaxTime
  /\ calls["t1"] = 2 /\ ret["t1"] = [op |-> "Keys", keys |-> <<"b", "a">>]
  /\ ret["t2"] = ErrRet("Set", "nil")
  /\ KeySeq(lru) = <<"b", "a">> /\ items = {"a", "b"}
  /\ ExpiredAt(Elem(lru, "a"), clock)
====
